---------------------------- MODULE Spec2Model ----------------------------
(***************************************************************************)
(* Model of the journaling client: the localStorage entry store            *)
(* (services/stt.js), the report page (pages/reportPage.jsx) and the entry *)
(* page (pages/entryPage.jsx).                                             *)
(*                                                                         *)
(* Time is in milliseconds, counted from an origin chosen so that every    *)
(* instant of the model fits TLC's integers.  A stored text is a sequence  *)
(* of JSON tokens; JSON.parse and JSON.stringify work on those tokens.     *)
(***************************************************************************)
EXTENDS Integers, Sequences, FiniteSets, TLC

VARIABLES
    storage,      \* localStorage: key -> [present, text]
    now,          \* Date.now()
    ret,          \* outcome of the last store call: [op, threw, val]
    initArr,      \* history: the array loadEntries() read before any call
    written       \* history: the entries handed to saveEntry, in call order

VARIABLES
    rPhase,       \* ReportPage: "unmounted", "mounted", "crashed" or "left"
    weekEntries,  \* ReportPage: weekEntries of the last render
    insights,     \* ReportPage: "none" (null) or "data"
    isLoading,    \* ReportPage: isLoading
    reportError,  \* ReportPage: error
    pendingInsight, \* whether a POST /insights/weekly is in flight
    requests      \* history: the entries of each POST /insights/weekly issued

VARIABLES
    ePhase,          \* Entry: "none" (never rendered), "mounted", "unmounted"
    promptText,      \* Entry: promptText
    isLoadingPrompt, \* Entry: isLoadingPrompt
    response,        \* Entry: response, a sequence of characters
    isRecording,     \* Entry: isRecording
    isTranscribing,  \* Entry: isTranscribing
    error,           \* Entry: error
    mediaRecorderRef, \* Entry: mediaRecorderRef.current, 0 for null
    streamRef,       \* Entry: streamRef.current, 0 for null
    chunksRef,       \* Entry: the bytes held in chunksRef.current
    hasGetUserMedia, \* whether navigator.mediaDevices.getUserMedia exists
    streams,         \* the MediaStreams handed out: "live" or "stopped"
    recorders,       \* the MediaRecorders built: [stream, state, stopQueued]
    promptPending,   \* whether GET /prompt/today is in flight
    gumPending,      \* startRecording calls waiting for getUserMedia
    gumCalls,        \* history: getUserMedia calls made
    transcribing,    \* POST /stt/transcribe calls in flight
    lastSave,        \* history: the last click on Save: [clicked, response]
    released         \* history: the last record gesture handled was a release

VARIABLES
    callers,      \* concurrent saveEntry calls: [pc, entry, entries]
    order         \* history: the steps the concurrent calls have taken

storeVars == <<storage, now, ret, initArr, written>>
callerVars == <<callers, order>>
entryVars == <<ePhase, promptText, isLoadingPrompt, response, isRecording,
               isTranscribing, error, mediaRecorderRef, streamRef, chunksRef,
               hasGetUserMedia, streams, recorders, promptPending, gumPending,
               gumCalls, transcribing, lastSave, released>>
reportVars == <<rPhase, weekEntries, insights, isLoading, reportError,
                pendingInsight, requests>>

vars == <<storage, now, ret, initArr, written,
          rPhase, weekEntries, insights, isLoading, reportError,
          pendingInsight, requests,
          ePhase, promptText, isLoadingPrompt, response, isRecording,
          isTranscribing, error, mediaRecorderRef, streamRef, chunksRef,
          hasGetUserMedia, streams, recorders, promptPending, gumPending,
          gumCalls, transcribing, lastSave, released,
          callers, order>>

(***************************************************************************)
(* Bounds of the model.                                                    *)
(***************************************************************************)
MaxSaves == 3
MaxTicks == 1
MaxRequests == 2
MaxStarts == 2

(***************************************************************************)
(* Program constants.                                                      *)
(***************************************************************************)
DayMs == 24 * 60 * 60 * 1000
WindowMs == 7 * 24 * 60 * 60 * 1000
\* Faulty variant: the store sharing the report page's key.
KEY_Journal == "journal_entries"

KEY == "entries_v1"
STORAGE_KEY == "journal_entries"
Keys == {"entries_v1", "journal_entries"}

\* The first instant of the model: nine days after the origin.
Now0 == 9 * DayMs

(***************************************************************************)
(* Journal entries and JSON texts.                                         *)
(***************************************************************************)
Prompts == {"p"}
Responses == {"r"}
Offsets == {0 - 8 * DayMs, 0 - WindowMs - 1, 0 - WindowMs, 0 - 3 * DayMs,
            0 - DayMs, DayMs}

JournalEntry(p, r, t) == [prompt |-> p, response |-> r, timestamp |-> t]

\* The entries a caller can create at instant n.
EntriesAt(n) ==
    {JournalEntry(p, r, n + o) : p \in Prompts, r \in Responses, o \in Offsets}

NoEntry == JournalEntry("", "", 0)
Tok(k) == [k |-> k, e |-> NoEntry]
ObjTok(e) == [k |-> "obj", e |-> e]

\* The elements of an array text: e1 "," e2 "," ... en.
RECURSIVE JoinEntries(_)
JoinEntries(arr) ==
    IF arr = <<>> THEN <<>>
    ELSE IF Len(arr) = 1 THEN <<ObjTok(arr[1])>>
    ELSE <<ObjTok(arr[1]), Tok(",")>> \o JoinEntries(Tail(arr))

\* JSON.stringify of an array of entries: "[" e1 "," e2 ... "]".
JSONstringify(arr) == <<Tok("[")>> \o JoinEntries(arr) \o <<Tok("]")>>

\* Whether text is "[" obj ("," obj)* "]" or "[" "]".
IsArrayText(text) ==
    /\ Len(text) >= 2
    /\ text[1].k = "["
    /\ text[Len(text)].k = "]"
    /\ \/ Len(text) = 2
       \/ /\ Len(text) % 2 = 1
          /\ \A i \in 2..(Len(text) - 1) :
                IF i % 2 = 0 THEN text[i].k = "obj" ELSE text[i].k = ","

\* JSON.parse: throws a SyntaxError on a text that is no JSON value.
JSONparse(text) ==
    IF IsArrayText(text)
    THEN [threw |-> FALSE, type |-> "array",
          arr |-> [i \in 1..((Len(text) - 1) \div 2) |-> text[2 * i].e]]
    ELSE IF Len(text) = 1 /\ text[1].k = "null"
    THEN [threw |-> FALSE, type |-> "null", arr |-> <<>>]
    ELSE IF Len(text) = 1 /\ text[1].k = "obj"
    THEN [threw |-> FALSE, type |-> "object", arr |-> <<>>]
    ELSE [threw |-> TRUE, type |-> "SyntaxError", arr |-> <<>>]

\* localStorage.getItem: null for a missing key.
Missing == [present |-> FALSE, text |-> <<>>]
Stored(text) == [present |-> TRUE, text |-> text]
getItem(st, key) == st[key]
\* A raw value is truthy unless it is null or the empty string.
Truthy(raw) == raw.present /\ raw.text # <<>>

(***************************************************************************)
(* The entry store, services/stt.js.                                       *)
(***************************************************************************)
Returned(op, val) == [op |-> op, threw |-> FALSE, err |-> "", val |-> val]
Raised(op, err) == [op |-> op, threw |-> TRUE, err |-> err, val |-> <<>>]

\* The try block of loadEntries: its value, or the exception it raises.
loadEntriesTry(st) ==
    LET raw == getItem(st, KEY)
        parsed == IF Truthy(raw)
                  THEN JSONparse(raw.text)
                  ELSE [threw |-> FALSE, type |-> "array", arr |-> <<>>]
    IN  IF parsed.threw THEN Raised("loadEntries", parsed.type)
        ELSE IF parsed.type = "array" THEN Returned("loadEntries", parsed.arr)
        ELSE Returned("loadEntries", <<>>)

\* Faulty variant: loadEntries without its catch clause.
loadEntriesNoCatch(st) == loadEntriesTry(st)

loadEntries(st) ==
    LET r == loadEntriesTry(st)
    IN  IF r.threw THEN Returned("loadEntries", <<>>) ELSE r

\* Faulty variant: saveEntry writing the new entry alone.
saveEntryOverwrite(st, entry) ==
    [st EXCEPT ![KEY] = Stored(JSONstringify(<<entry>>))]

\* Faulty variant: saveEntry putting the new entry first (unshift for push).
saveEntryUnshift(st, entry) ==
    [st EXCEPT ![KEY] = Stored(JSONstringify(<<entry>> \o loadEntries(st).val))]

\* The storage after saveEntry(entry).
saveEntry(st, entry) ==
    LET entries == Append(loadEntries(st).val, entry)
    IN  [st EXCEPT ![KEY] = Stored(JSONstringify(entries))]

\* Faulty variant: an exclusive lower bound.
WindowFilterExclusive(entries, n) ==
    LET cutoff == n - 7 * 24 * 60 * 60 * 1000
        Recent(e) == e.timestamp > cutoff
    IN  SelectSeq(entries, Recent)

\* Faulty variant: old entries removed in place while scanning forward, which skips the
\* entry that follows each removed one.
RECURSIVE SpliceScan(_, _, _)
SpliceScan(entries, i, cutoff) ==
    IF i > Len(entries) THEN entries
    ELSE IF entries[i].timestamp >= cutoff
    THEN SpliceScan(entries, i + 1, cutoff)
    ELSE SpliceScan(SubSeq(entries, 1, i - 1)
                      \o SubSeq(entries, i + 1, Len(entries)), i + 1, cutoff)

WindowFilterSplice(entries, n) ==
    SpliceScan(entries, 1, n - 7 * 24 * 60 * 60 * 1000)

\* The filter of getLast7DaysEntries at instant n.
WindowFilter(entries, n) ==
    LET cutoff == n - 7 * 24 * 60 * 60 * 1000
        Recent(e) == e.timestamp >= cutoff
    IN  SelectSeq(entries, Recent)

getLast7DaysEntries(st, n) ==
    Returned("getLast7DaysEntries", WindowFilter(loadEntries(st).val, n))

(***************************************************************************)
(* The report page's read of the store, pages/reportPage.jsx.              *)
(***************************************************************************)
getWeekEntries(st, n) ==
    LET raw == getItem(st, STORAGE_KEY)
        parsed == IF Truthy(raw)
                  THEN JSONparse(raw.text)
                  ELSE JSONparse(<<Tok("["), Tok("]")>>)
        weekAgo == n - 7 * 24 * 60 * 60 * 1000
        Recent(e) == e.timestamp >= weekAgo
    IN  IF parsed.threw THEN Raised("getWeekEntries", "SyntaxError")
        ELSE IF parsed.type # "array" THEN Raised("getWeekEntries", "TypeError")
        ELSE Returned("getWeekEntries", SelectSeq(parsed.arr, Recent))

\* The entry page when it was never rendered.
EntryUnmounted ==
    /\ ePhase = "none"
    /\ promptText = ""
    /\ isLoadingPrompt = TRUE
    /\ response = <<>>
    /\ isRecording = FALSE
    /\ isTranscribing = FALSE
    /\ error = ""
    /\ mediaRecorderRef = 0
    /\ streamRef = 0
    /\ chunksRef = 0
    /\ hasGetUserMedia = TRUE
    /\ streams = <<>>
    /\ recorders = <<>>
    /\ promptPending = FALSE
    /\ gumPending = 0
    /\ gumCalls = 0
    /\ transcribing = 0
    /\ lastSave = [clicked |-> FALSE, response |-> <<>>]
    /\ released = FALSE

\* The tabs that may call saveEntry on the same localStorage.
Callers == {1, 2}

\* No concurrent call of saveEntry is under way.
NoCallers ==
    /\ callers = [c \in Callers |-> [pc |-> "idle", entry |-> NoEntry,
                                     entries |-> <<>>]]
    /\ order = <<>>

\* The report page before it is mounted.
ReportUnmounted ==
    /\ rPhase = "unmounted"
    /\ weekEntries = <<>>
    /\ insights = "none"
    /\ isLoading = FALSE
    /\ reportError = ""
    /\ pendingInsight = FALSE
    /\ requests = <<>>

(***************************************************************************)
(* The store specification: any caller's calls of the store's functions,   *)
(* from any value localStorage may hold at the start.                      *)
(***************************************************************************)
SomeEntry == JournalEntry("p", "r", Now0 - DayMs)

\* Stored values that hold no array: a missing key, the empty string, a
\* truncated text, a trailing comma, the JSON null, a JSON object.
NonArrayValues ==
    {Missing,
     Stored(<<>>),
     Stored(<<Tok("["), ObjTok(SomeEntry)>>),
     Stored(<<Tok("["), ObjTok(SomeEntry), Tok(","), Tok("]")>>),
     Stored(<<Tok("null")>>),
     Stored(<<ObjTok(SomeEntry)>>)}

\* Arrays the key may hold at the start: none, one entry on the bound of the
\* window, an old entry followed by a recent one.
InitialArrays ==
    {<<>>,
     <<JournalEntry("p", "r", Now0 - WindowMs)>>,
     <<JournalEntry("p", "r", Now0 - 8 * DayMs), SomeEntry>>}

\* What the key may hold at the start, with the array it stands for.
InitialValues ==
    {[raw |-> v, arr |-> <<>>] : v \in NonArrayValues}
      \cup {[raw |-> Stored(JSONstringify(a)), arr |-> a] : a \in InitialArrays}

JournalValues ==
    {Missing,
     Stored(JSONstringify(<<JournalEntry("p", "r", Now0 - WindowMs)>>))}

InitStore ==
    /\ \E v \in InitialValues, j \in JournalValues :
          /\ storage = [k \in Keys |-> IF k = KEY THEN v.raw ELSE j]
          /\ initArr = v.arr
    /\ now = Now0
    /\ ret = Returned("none", <<>>)
    /\ written = <<>>
    /\ ReportUnmounted
    /\ NoCallers
    /\ EntryUnmounted

SaveEntry ==
    /\ Len(written) < MaxSaves
    /\ \E entry \in EntriesAt(now) :
          /\ storage' = saveEntry(storage, entry)
          /\ written' = Append(written, entry)
    /\ ret' = Returned("saveEntry", <<>>)
    /\ UNCHANGED <<now, initArr>>
    /\ UNCHANGED <<reportVars, entryVars, callerVars>>

LoadEntries ==
    /\ ret' = loadEntries(storage)
    /\ UNCHANGED <<storage, now, initArr, written>>
    /\ UNCHANGED <<reportVars, entryVars, callerVars>>

GetLast7DaysEntries ==
    /\ ret' = getLast7DaysEntries(storage, now)
    /\ UNCHANGED <<storage, now, initArr, written>>
    /\ UNCHANGED <<reportVars, entryVars, callerVars>>

\* A millisecond passes.
Tick ==
    /\ now < Now0 + MaxTicks
    /\ now' = now + 1
    /\ UNCHANGED <<storage, ret, initArr, written>>
    /\ UNCHANGED <<reportVars, entryVars, callerVars>>

NextStore ==
    \/ SaveEntry
    \/ LoadEntries
    \/ GetLast7DaysEntries
    \/ Tick

SpecStore == InitStore /\ [][NextStore]_vars

(***************************************************************************)
(* Properties of the entry store.                                          *)
(***************************************************************************)
IsPrefix(a, b) == Len(a) <= Len(b) /\ SubSeq(b, 1, Len(a)) = a

\* C1: loadEntries never raises; it returns the empty sequence when the value
\* under its key is missing, empty, not parseable or not an array, and the
\* stored array in every other case.
C1_LoadEntriesTotal ==
    LET raw == storage[KEY]
        r == loadEntries(storage)
    IN  /\ ~r.threw
        /\ ret.op = "loadEntries" => ~ret.threw
        /\ IF \/ ~raw.present
              \/ raw.text = <<>>
              \/ JSONparse(raw.text).threw
              \/ JSONparse(raw.text).type # "array"
           THEN r.val = <<>>
           ELSE r.val = JSONparse(raw.text).arr
        /\ written = <<>> => r.val = initArr

\* loadEntries has returned the empty sequence for a stored JSON null.
C1_Witness ==
    /\ ret.op = "loadEntries"
    /\ storage[KEY] = Stored(<<Tok("null")>>)
    /\ ret.val = <<>>
    /\ ~ret.threw

\* C2: saveEntry(e) followed by loadEntries() yields what loadEntries()
\* returned before with e appended at the end; the loaded length is the
\* initial length plus the number of saveEntry calls.
C2_SaveThenLoadAppends ==
    /\ [](Len(loadEntries(storage).val) = Len(initArr) + Len(written))
    /\ [][written' # written =>
            loadEntries(storage').val =
                Append(loadEntries(storage).val, written'[Len(written')])]_vars

\* Two saveEntry calls on a store that held an entry: three entries, in order.
C2_Witness ==
    /\ ret.op = "saveEntry"
    /\ Len(written) = 2
    /\ Len(initArr) = 1
    /\ loadEntries(storage).val = initArr \o written

\* C3: the stored sequence only grows: each value of loadEntries() is a
\* prefix of the next one, and only saveEntry changes the stored value.
C3_StoreOnlyGrows ==
    [][/\ IsPrefix(loadEntries(storage).val, loadEntries(storage').val)
       /\ written' = written => storage' = storage]_vars

\* getLast7DaysEntries has run after a save on a store that held an entry.
C3_Witness ==
    /\ ret.op = "getLast7DaysEntries"
    /\ Len(written) >= 1
    /\ Len(initArr) = 1
    /\ loadEntries(storage).val = initArr \o written

\* C4: the weekly window query returns exactly the stored entries whose
\* timestamp is >= now - 604800000, in insertion order: the bound is
\* inclusive and there is no upper bound.
C4_WindowQueryExact ==
    LET all == initArr \o written
        r == getLast7DaysEntries(storage, now).val
        kept == {i \in 1..Len(all) : all[i].timestamp >= now - 604800000}
        Rank(i) == Cardinality({k \in kept : k <= i})
        Holds(e) == \E j \in 1..Len(r) : r[j] = e
    IN  /\ Len(r) = Cardinality(kept)
        /\ \A i \in kept : r[Rank(i)] = all[i]
        /\ \A i \in 1..Len(all) :
              /\ all[i].timestamp = now - 604800000 => Holds(all[i])
              /\ all[i].timestamp = now - 604800000 - 1 => ~Holds(all[i])
              /\ all[i].timestamp > now => Holds(all[i])

\* The store held an entry on the bound; entries dated now-1d, now-8d and
\* now-3d were saved; the query returned all but the one dated now-8d.
C4_Witness ==
    /\ ret.op = "getLast7DaysEntries"
    /\ Len(initArr) = 1
    /\ initArr[1].timestamp = now - WindowMs
    /\ Len(written) = 3
    /\ written[1].timestamp = now - DayMs
    /\ written[2].timestamp = now - 8 * DayMs
    /\ written[3].timestamp = now - 3 * DayMs
    /\ ret.val = <<initArr[1], written[1], written[3]>>

\* C5: the window query is idempotent: filtering its result again with the
\* same now returns the same sequence, for the store's filter and for the
\* report page's.
C5_WindowQueryIdempotent ==
    LET once == WindowFilter(loadEntries(storage).val, now)
        week == getWeekEntries(storage, now)
        refiltered(key, arr) == [storage EXCEPT ![key] = Stored(JSONstringify(arr))]
    IN  /\ WindowFilter(once, now) = once
        /\ getLast7DaysEntries(refiltered(KEY, once), now).val = once
        /\ ~week.threw => getWeekEntries(refiltered(STORAGE_KEY, week.val), now) = week

\* The query has kept some entries and dropped two or more.
C5_Witness ==
    /\ ret.op = "getLast7DaysEntries"
    /\ Len(ret.val) >= 1
    /\ Len(ret.val) + 2 <= Len(loadEntries(storage).val)
    /\ ret.val = WindowFilter(loadEntries(storage).val, now)
    /\ WindowFilter(ret.val, now) = ret.val

\* C8: saveEntry writes entries_v1 and the report page reads journal_entries:
\* a saveEntry call leaves the value under journal_entries and the result of
\* getWeekEntries unchanged.
C8_SaveInvisibleToReport ==
    /\ [](KEY # STORAGE_KEY)
    /\ [][/\ storage'[STORAGE_KEY] = storage[STORAGE_KEY]
          /\ written' # written =>
                getWeekEntries(storage', now') = getWeekEntries(storage, now)]_vars

\* An entry inside the window was saved, and getWeekEntries still returns
\* the one entry stored under journal_entries, which is another entry.
C8_Witness ==
    /\ ret.op = "saveEntry"
    /\ Len(written) >= 1
    /\ written[1].timestamp > now - WindowMs
    /\ ~getWeekEntries(storage, now).threw
    /\ Len(getWeekEntries(storage, now).val) = 1
    /\ getWeekEntries(storage, now).val[1] # written[1]

(***************************************************************************)
(* The report page, pages/reportPage.jsx.                                  *)
(***************************************************************************)
\* Faulty variant: the mount effect calling loadInsights unconditionally.
ShouldLoadAlways(entries) == TRUE

\* The guard of the mount effect.
ShouldLoadOnMount(entries) == Len(entries) > 0

\* What the page renders.
ReportView ==
    IF rPhase # "mounted" THEN rPhase
    ELSE IF Len(weekEntries) = 0 THEN "noEntries"
    ELSE IF isLoading THEN "loading"
    ELSE IF reportError # "" THEN "error"
    ELSE IF insights # "none" THEN "report"
    ELSE "blank"

\* The part of loadInsights before its await, with the entries it sends.
LoadInsightsStart(entries) ==
    /\ isLoading' = TRUE
    /\ reportError' = ""
    /\ pendingInsight' = TRUE
    /\ requests' = Append(requests, entries)

\* A render of the mounted page: weekEntries is read again; an exception of
\* getWeekEntries takes the page down.
Rerender ==
    LET w == getWeekEntries(storage, now)
    IN  IF w.threw
        THEN rPhase' = "crashed" /\ weekEntries' = <<>>
        ELSE rPhase' = rPhase /\ weekEntries' = w.val

\* What localStorage may hold under journal_entries when the page is opened.
ReportJournalValues ==
    NonArrayValues
      \cup {Stored(JSONstringify(a)) : a \in InitialArrays}
      \cup {Stored(JSONstringify(<<JournalEntry("p", "r", Now0 - WindowMs), SomeEntry>>))}

InitReport ==
    /\ \E j \in ReportJournalValues :
          storage = [k \in Keys |-> IF k = STORAGE_KEY THEN j ELSE Missing]
    /\ now = Now0
    /\ ret = Returned("none", <<>>)
    /\ initArr = <<>>
    /\ written = <<>>
    /\ ReportUnmounted
    /\ NoCallers
    /\ EntryUnmounted

\* The first render and the mount effect.
MountReport ==
    /\ rPhase = "unmounted"
    /\ LET w == getWeekEntries(storage, now)
       IN  IF w.threw
           THEN /\ rPhase' = "crashed"
                /\ UNCHANGED <<weekEntries, insights, isLoading, reportError,
                               pendingInsight, requests>>
           ELSE /\ rPhase' = "mounted"
                /\ weekEntries' = w.val
                /\ IF ShouldLoadOnMount(w.val)
                   THEN LoadInsightsStart(w.val)
                   ELSE UNCHANGED <<isLoading, reportError, pendingInsight, requests>>
                /\ UNCHANGED insights
    /\ UNCHANGED <<storeVars, entryVars, callerVars>>

\* A click on Retry: loadInsights of the last render, then a render.
Retry ==
    /\ ReportView = "error"
    /\ Len(requests) < MaxRequests
    /\ LoadInsightsStart(weekEntries)
    /\ Rerender
    /\ UNCHANGED insights
    /\ UNCHANGED <<storeVars, entryVars, callerVars>>

\* The fetch of loadInsights settles: ok, a network error or a status that is
\* not ok.  A page that was left ignores it.
InsightsResponse ==
    /\ pendingInsight
    /\ pendingInsight' = FALSE
    /\ \E outcome \in {"ok", "networkError", "notOk"} :
          IF rPhase = "mounted"
          THEN /\ IF outcome = "ok"
                  THEN insights' = "data" /\ UNCHANGED reportError
                  ELSE /\ reportError' =
                            "Cannot connect to backend. Please make sure the server is running."
                       /\ UNCHANGED insights
               /\ isLoading' = FALSE
               /\ Rerender
          ELSE UNCHANGED <<rPhase, weekEntries, insights, isLoading, reportError>>
    /\ UNCHANGED requests
    /\ UNCHANGED <<storeVars, entryVars, callerVars>>

\* A click on Back or on Start journaling: onNavigate('entry').
NavigateToEntry ==
    /\ rPhase = "mounted"
    /\ rPhase' = "left"
    /\ UNCHANGED <<weekEntries, insights, isLoading, reportError, pendingInsight,
                   requests>>
    /\ UNCHANGED <<storeVars, entryVars, callerVars>>

NextReport ==
    \/ MountReport
    \/ Retry
    \/ InsightsResponse
    \/ NavigateToEntry
    \/ Tick

SpecReport == InitReport /\ [][NextReport]_vars

(***************************************************************************)
(* The entry page, pages/entryPage.jsx.                                    *)
(***************************************************************************)
\* The characters String.prototype.trim removes.
IsSpace(c) == c \in {" ", "\n"}

RECURSIVE TrimStart(_)
TrimStart(str) ==
    IF str # <<>> /\ IsSpace(Head(str)) THEN TrimStart(Tail(str)) ELSE str

RECURSIVE TrimEnd(_)
TrimEnd(str) ==
    IF str # <<>> /\ IsSpace(str[Len(str)])
    THEN TrimEnd(SubSeq(str, 1, Len(str) - 1))
    ELSE str

Trim(str) == TrimEnd(TrimStart(str))

\* Texts the user may leave in the textarea.
TypedTexts ==
    {<<>>,
     <<" ">>,
     <<"h", "i">>,
     <<" ", "a", " ">>,
     <<"a", "b", "c", "d", "e", "f", "g", "h", "i", "j">>}

\* Texts the transcription service may return.
TranscribedTexts == {<<>>, <<" ">>, <<" ", "t", " ">>}

\* Sizes of the data a recorder delivers when it stops.
DataSizes == {0, 1499, 1500}

PromptFailedMsg == "Failed to load today's prompt."
UnsupportedMsg == "Your browser doesn't support audio recording."
MicrophoneMsg == "Microphone permission denied or unavailable."
NoSpeechMsg == "No speech detected. Try speaking a bit louder/longer."
SttFailedMsg == "STT failed"

\* What the page renders.
EntryView ==
    IF ePhase # "mounted" THEN "unmounted"
    ELSE IF isLoadingPrompt THEN "loading"
    ELSE IF promptText = "" THEN "promptFailed"
    ELSE "form"

\* disabled of the textarea and of the two record buttons.
ControlsDisabled == isTranscribing

\* disabled of the Save button.
SaveDisabled == isTranscribing \/ Trim(response) = <<>>

\* A state setter: without effect once the component is unmounted.
SetState(old, new) == IF ePhase = "mounted" THEN new ELSE old

\* streamRef.current's tracks stopped, as stopStream does.
StoppedStreams == 
    IF streamRef # 0 THEN [streams EXCEPT ![streamRef] = "stopped"] ELSE streams

\* recorder.stop() on mediaRecorderRef.current when it is not inactive: the
\* recorder is inactive at once, its events are delivered later.
StoppedRecorders ==
    IF mediaRecorderRef # 0 /\ recorders[mediaRecorderRef].state # "inactive"
    THEN [recorders EXCEPT ![mediaRecorderRef] =
             [@ EXCEPT !.state = "inactive", !.stopQueued = TRUE]]
    ELSE recorders

InitEntry ==
    /\ storage = [k \in Keys |-> Missing]
    /\ now = Now0
    /\ ret = Returned("none", <<>>)
    /\ initArr = <<>>
    /\ written = <<>>
    /\ ReportUnmounted
    /\ NoCallers
    /\ ePhase = "mounted"
    /\ promptText = ""
    /\ isLoadingPrompt = TRUE
    /\ response = <<>>
    /\ isRecording = FALSE
    /\ isTranscribing = FALSE
    /\ error = ""
    /\ mediaRecorderRef = 0
    /\ streamRef = 0
    /\ chunksRef = 0
    /\ hasGetUserMedia \in BOOLEAN
    /\ streams = <<>>
    /\ recorders = <<>>
    /\ promptPending = TRUE
    /\ gumPending = 0
    /\ gumCalls = 0
    /\ transcribing = 0
    /\ lastSave = [clicked |-> FALSE, response |-> <<>>]
    /\ released = FALSE

\* Faulty variant: isLoadingPrompt is cleared after a prompt only, not in a
\* finally block.
PromptResponseNoFinally ==
    /\ promptPending
    /\ promptPending' = FALSE
    /\ \E outcome \in {"ok", "networkError", "notOk"} :
          IF outcome = "ok"
          THEN /\ promptText' = SetState(promptText, "p")
               /\ isLoadingPrompt' = SetState(isLoadingPrompt, FALSE)
               /\ UNCHANGED error
          ELSE /\ error' = SetState(error, PromptFailedMsg)
               /\ UNCHANGED <<promptText, isLoadingPrompt>>
    /\ UNCHANGED <<ePhase, response, isRecording, isTranscribing, mediaRecorderRef,
                   streamRef, chunksRef, hasGetUserMedia, streams, recorders,
                   gumPending, gumCalls, transcribing, lastSave, released>>
    /\ UNCHANGED <<storeVars, reportVars, callerVars>>

\* fetchTodayPrompt settles and loadPrompt goes on.
PromptResponse ==
    /\ promptPending
    /\ promptPending' = FALSE
    /\ \E outcome \in {"ok", "networkError", "notOk"} :
          IF outcome = "ok"
          THEN promptText' = SetState(promptText, "p") /\ UNCHANGED error
          ELSE error' = SetState(error, PromptFailedMsg) /\ UNCHANGED promptText
    /\ isLoadingPrompt' = SetState(isLoadingPrompt, FALSE)
    /\ UNCHANGED <<ePhase, response, isRecording, isTranscribing, mediaRecorderRef,
                   streamRef, chunksRef, hasGetUserMedia, streams, recorders,
                   gumPending, gumCalls, transcribing, lastSave, released>>
    /\ UNCHANGED <<storeVars, reportVars, callerVars>>

\* onChange of the textarea.
TypeResponse ==
    /\ EntryView = "form"
    /\ ~ControlsDisabled
    /\ \E text \in TypedTexts : response' = text
    /\ UNCHANGED <<ePhase, promptText, isLoadingPrompt, isRecording, isTranscribing,
                   error, mediaRecorderRef, streamRef, chunksRef, hasGetUserMedia,
                   streams, recorders, promptPending, gumPending, gumCalls,
                   transcribing, lastSave, released>>
    /\ UNCHANGED <<storeVars, reportVars, callerVars>>

\* onClick of Save reflection: an alert, nothing is stored.
SaveClick ==
    /\ EntryView = "form"
    /\ ~SaveDisabled
    /\ lastSave' = [clicked |-> TRUE, response |-> response]
    /\ UNCHANGED <<ePhase, promptText, isLoadingPrompt, response, isRecording,
                   isTranscribing, error, mediaRecorderRef, streamRef, chunksRef,
                   hasGetUserMedia, streams, recorders, promptPending, gumPending,
                   gumCalls, transcribing, released>>
    /\ UNCHANGED <<storeVars, reportVars, callerVars>>

\* startRecording up to its await of getUserMedia.
StartRecordingCall ==
    /\ error' = IF hasGetUserMedia THEN "" ELSE UnsupportedMsg
    /\ IF hasGetUserMedia /\ ~(isRecording \/ isTranscribing)
       THEN /\ gumCalls < MaxStarts
            /\ gumPending' = gumPending + 1
            /\ gumCalls' = gumCalls + 1
       ELSE UNCHANGED <<gumPending, gumCalls>>
    /\ UNCHANGED <<ePhase, promptText, isLoadingPrompt, response, isRecording,
                   isTranscribing, mediaRecorderRef, streamRef, chunksRef,
                   hasGetUserMedia, streams, recorders, promptPending,
                   transcribing, lastSave>>

\* stopRecording.
StopRecordingCall ==
    /\ error' = ""
    /\ recorders' = StoppedRecorders
    /\ UNCHANGED <<ePhase, promptText, isLoadingPrompt, response, isRecording,
                   isTranscribing, mediaRecorderRef, streamRef, chunksRef,
                   hasGetUserMedia, streams, promptPending, gumPending, gumCalls,
                   transcribing, lastSave>>

\* onMouseDown and onTouchStart of the hold-to-record button.
HoldDown ==
    /\ EntryView = "form"
    /\ ~ControlsDisabled
    /\ StartRecordingCall
    /\ released' = FALSE
    /\ UNCHANGED <<storeVars, reportVars, callerVars>>

\* onMouseUp and onTouchEnd of the hold-to-record button.
HoldUp ==
    /\ EntryView = "form"
    /\ ~ControlsDisabled
    /\ StopRecordingCall
    /\ released' = TRUE
    /\ UNCHANGED <<storeVars, reportVars, callerVars>>

\* onMouseLeave of the hold-to-record button.
MouseLeave ==
    /\ EntryView = "form"
    /\ ~ControlsDisabled
    /\ IF isRecording
       THEN StopRecordingCall /\ released' = FALSE
       ELSE UNCHANGED entryVars
    /\ UNCHANGED <<storeVars, reportVars, callerVars>>

\* onClick of the Record / Stop button.
ToggleRecording ==
    /\ EntryView = "form"
    /\ ~ControlsDisabled
    /\ IF isRecording THEN StopRecordingCall ELSE StartRecordingCall
    /\ released' = FALSE
    /\ UNCHANGED <<storeVars, reportVars, callerVars>>

\* Faulty variant: the catch block of startRecording does not call
\* stopStream().
GetUserMediaSettlesKeepsStream ==
    /\ gumPending > 0
    /\ gumPending' = gumPending - 1
    /\ \E outcome \in {"granted", "recorderThrows", "startThrows", "denied"} :
          IF outcome = "granted"
          THEN /\ streams' = Append(streams, "live")
               /\ streamRef' = Len(streams) + 1
               /\ chunksRef' = 0
               /\ recorders' = Append(recorders,
                     [stream |-> Len(streams) + 1, state |-> "recording",
                      stopQueued |-> FALSE])
               /\ mediaRecorderRef' = Len(recorders) + 1
               /\ isRecording' = SetState(isRecording, TRUE)
               /\ UNCHANGED error
          ELSE IF outcome = "recorderThrows"
          THEN /\ streams' = Append(streams, "live")
               /\ streamRef' = Len(streams) + 1
               /\ chunksRef' = 0
               /\ error' = SetState(error, MicrophoneMsg)
               /\ isRecording' = SetState(isRecording, FALSE)
               /\ UNCHANGED <<recorders, mediaRecorderRef>>
          ELSE IF outcome = "startThrows"
          THEN /\ streams' = Append(streams, "live")
               /\ streamRef' = Len(streams) + 1
               /\ chunksRef' = 0
               /\ recorders' = Append(recorders,
                     [stream |-> Len(streams) + 1, state |-> "inactive",
                      stopQueued |-> FALSE])
               /\ mediaRecorderRef' = Len(recorders) + 1
               /\ error' = SetState(error, MicrophoneMsg)
               /\ isRecording' = SetState(isRecording, FALSE)
          ELSE /\ UNCHANGED streams
               /\ UNCHANGED streamRef
               /\ error' = SetState(error, MicrophoneMsg)
               /\ isRecording' = SetState(isRecording, FALSE)
               /\ UNCHANGED <<chunksRef, recorders, mediaRecorderRef>>
    /\ UNCHANGED <<ePhase, promptText, isLoadingPrompt, response, isTranscribing,
                   hasGetUserMedia, promptPending, gumCalls, transcribing, lastSave, released>>
    /\ UNCHANGED <<storeVars, reportVars, callerVars>>

\* getUserMedia settles and startRecording goes on: the stream is granted and
\* the recorder starts, the recorder cannot be built (the stream is held,
\* the recorder is not), recorder.start() throws (both are held), or the
\* stream is refused.
GetUserMediaSettles ==
    /\ gumPending > 0
    /\ gumPending' = gumPending - 1
    /\ \E outcome \in {"granted", "recorderThrows", "startThrows", "denied"} :
          IF outcome = "granted"
          THEN /\ streams' = Append(streams, "live")
               /\ streamRef' = Len(streams) + 1
               /\ chunksRef' = 0
               /\ recorders' = Append(recorders,
                     [stream |-> Len(streams) + 1, state |-> "recording",
                      stopQueued |-> FALSE])
               /\ mediaRecorderRef' = Len(recorders) + 1
               /\ isRecording' = SetState(isRecording, TRUE)
               /\ UNCHANGED error
          ELSE IF outcome = "recorderThrows"
          THEN /\ streams' = Append(streams, "stopped")
               /\ streamRef' = 0
               /\ chunksRef' = 0
               /\ error' = SetState(error, MicrophoneMsg)
               /\ isRecording' = SetState(isRecording, FALSE)
               /\ UNCHANGED <<recorders, mediaRecorderRef>>
          ELSE IF outcome = "startThrows"
          THEN /\ streams' = Append(streams, "stopped")
               /\ streamRef' = 0
               /\ chunksRef' = 0
               /\ recorders' = Append(recorders,
                     [stream |-> Len(streams) + 1, state |-> "inactive",
                      stopQueued |-> FALSE])
               /\ mediaRecorderRef' = Len(recorders) + 1
               /\ error' = SetState(error, MicrophoneMsg)
               /\ isRecording' = SetState(isRecording, FALSE)
          ELSE /\ streams' = StoppedStreams
               /\ streamRef' = 0
               /\ error' = SetState(error, MicrophoneMsg)
               /\ isRecording' = SetState(isRecording, FALSE)
               /\ UNCHANGED <<chunksRef, recorders, mediaRecorderRef>>
    /\ UNCHANGED <<ePhase, promptText, isLoadingPrompt, response, isTranscribing,
                   hasGetUserMedia, promptPending, gumCalls, transcribing, lastSave, released>>
    /\ UNCHANGED <<storeVars, reportVars, callerVars>>

\* Faulty variant: onstop has no early return for a small blob.
RecorderStopEventNoThreshold ==
    /\ \E id \in 1..Len(recorders), size \in DataSizes :
          /\ recorders[id].stopQueued
          /\ recorders' = [recorders EXCEPT ![id] = [@ EXCEPT !.stopQueued = FALSE]]
          /\ chunksRef' = chunksRef + size
          /\ isTranscribing' = SetState(isTranscribing, TRUE)
          /\ error' = SetState(error, "")
          /\ transcribing' = transcribing + 1
    /\ isRecording' = SetState(isRecording, FALSE)
    /\ streams' = StoppedStreams
    /\ streamRef' = 0
    /\ UNCHANGED <<ePhase, promptText, isLoadingPrompt, response, mediaRecorderRef,
                   hasGetUserMedia, promptPending, gumPending, gumCalls, lastSave, released>>
    /\ UNCHANGED <<storeVars, reportVars, callerVars>>

\* The dataavailable and stop events of a stopped recorder: ondataavailable,
\* then onstop up to its await of transcribeAudioBlob.
RecorderStopEvent ==
    /\ \E id \in 1..Len(recorders), size \in DataSizes :
          /\ recorders[id].stopQueued
          /\ recorders' = [recorders EXCEPT ![id] = [@ EXCEPT !.stopQueued = FALSE]]
          /\ chunksRef' = chunksRef + size
          /\ IF chunksRef + size < 1500
             THEN UNCHANGED <<isTranscribing, error, transcribing>>
             ELSE /\ isTranscribing' = SetState(isTranscribing, TRUE)
                  /\ error' = SetState(error, "")
                  /\ transcribing' = transcribing + 1
    /\ isRecording' = SetState(isRecording, FALSE)
    /\ streams' = StoppedStreams
    /\ streamRef' = 0
    /\ UNCHANGED <<ePhase, promptText, isLoadingPrompt, response, mediaRecorderRef,
                   hasGetUserMedia, promptPending, gumPending, gumCalls, lastSave, released>>
    /\ UNCHANGED <<storeVars, reportVars, callerVars>>

\* The browser stops a recorder all of whose tracks have ended.
BrowserStopsRecorder ==
    /\ \E id \in 1..Len(recorders) :
          /\ recorders[id].state = "recording"
          /\ streams[recorders[id].stream] = "stopped"
          /\ recorders' = [recorders EXCEPT ![id] =
                [@ EXCEPT !.state = "inactive", !.stopQueued = TRUE]]
    /\ UNCHANGED <<ePhase, promptText, isLoadingPrompt, response, isRecording,
                   isTranscribing, error, mediaRecorderRef, streamRef, chunksRef,
                   hasGetUserMedia, streams, promptPending, gumPending, gumCalls,
                   transcribing, lastSave, released>>
    /\ UNCHANGED <<storeVars, reportVars, callerVars>>

\* Faulty variant: the transcription replaces the response.
TranscribedReplaces(prev, text) == Trim(text)

\* The response as the updater of setResponse leaves it.
Transcribed(prev, text) ==
    IF Trim(prev) = <<>> THEN Trim(text)
    ELSE Trim(prev) \o <<"\n", "\n">> \o Trim(text)

\* transcribeAudioBlob settles and onstop goes on.
TranscriptionResponse ==
    /\ transcribing > 0
    /\ transcribing' = transcribing - 1
    /\ \/ /\ error' = SetState(error, SttFailedMsg)
          /\ UNCHANGED response
       \/ \E text \in TranscribedTexts :
             IF Trim(text) = <<>>
             THEN error' = SetState(error, NoSpeechMsg) /\ UNCHANGED response
             ELSE response' = SetState(response, Transcribed(response, text))
                  /\ UNCHANGED error
    /\ isTranscribing' = SetState(isTranscribing, FALSE)
    /\ UNCHANGED <<ePhase, promptText, isLoadingPrompt, isRecording,
                   mediaRecorderRef, streamRef, chunksRef, hasGetUserMedia, streams,
                   recorders, promptPending, gumPending, gumCalls, lastSave, released>>
    /\ UNCHANGED <<storeVars, reportVars, callerVars>>

\* The cleanup of the second effect, run when the component is unmounted.
UnmountEntry ==
    /\ ePhase = "mounted"
    /\ ePhase' = "unmounted"
    /\ recorders' = StoppedRecorders
    /\ streams' = StoppedStreams
    /\ streamRef' = 0
    /\ UNCHANGED <<promptText, isLoadingPrompt, response, isRecording,
                   isTranscribing, error, mediaRecorderRef, chunksRef,
                   hasGetUserMedia, promptPending, gumPending, gumCalls,
                   transcribing, lastSave, released>>
    /\ UNCHANGED <<storeVars, reportVars, callerVars>>

NextEntry ==
    \/ PromptResponse
    \/ TypeResponse
    \/ SaveClick
    \/ HoldDown
    \/ HoldUp
    \/ MouseLeave
    \/ ToggleRecording
    \/ GetUserMediaSettles
    \/ RecorderStopEvent
    \/ BrowserStopsRecorder
    \/ TranscriptionResponse
    \/ UnmountEntry

SpecEntry == InitEntry /\ [][NextEntry]_vars

(***************************************************************************)
(* Properties of the report page.                                          *)
(***************************************************************************)
\* C6: an insight request is issued only when the week's entries are not
\* empty: a page whose week is empty shows "no entries", issues no request
\* in any step, and a store with no entry inside the window never leads to
\* a request.
C6_InsightOnlyForEntries ==
    /\ [](\A i \in 1..Len(requests) : requests[i] # <<>>)
    /\ [](rPhase = "mounted" /\ weekEntries = <<>> => ReportView = "noEntries")
    /\ [](/\ ~getWeekEntries(storage, Now0).threw
          /\ getWeekEntries(storage, Now0).val = <<>>
          => requests = <<>>)
    /\ [][rPhase = "mounted" /\ weekEntries = <<>> => requests' = requests]_vars

\* The page is open on an empty stored array, time has passed, and it shows
\* "no entries" with no request made.
C6_Witness ==
    /\ rPhase = "mounted"
    /\ storage[STORAGE_KEY] = Stored(<<Tok("["), Tok("]")>>)
    /\ now > Now0
    /\ ReportView = "noEntries"
    /\ requests = <<>>
    /\ ~pendingInsight

\* C7: every read of the store treats a corrupted value as an empty
\* sequence and never raises: loadEntries does not raise, and the report
\* page opened on a corrupted value does not fail but shows "no entries".
C7_ReadsDegradeToEmpty ==
    LET raw == storage[STORAGE_KEY]
        corrupted == Truthy(raw) /\ JSONparse(raw.text).type # "array"
    IN  /\ ~loadEntries(storage).threw
        /\ corrupted /\ rPhase # "unmounted" =>
              /\ rPhase # "crashed"
              /\ rPhase = "mounted" => ReportView = "noEntries"

(***************************************************************************)
(* Properties of the views' remote calls and of the entry page.            *)
(***************************************************************************)
\* C9: after a failure of the prompt fetch, of the transcription call or of
\* the insight call, the view shows an error message and offers the user a
\* way to make the same call again.
C9_FailuresRetryable ==
    /\ ePhase = "mounted" /\ error = PromptFailedMsg =>
          /\ EntryView = "promptFailed"
          /\ ENABLED (NextEntry /\ promptPending')
    /\ ePhase = "mounted" /\ error = SttFailedMsg =>
          /\ EntryView = "form"
          /\ ~ControlsDisabled
    /\ rPhase = "mounted" /\ reportError # "" => ReportView = "error"

\* C10: whenever the response has fewer than 10 characters the save action
\* is not available, and no response shorter than 10 characters was ever
\* submitted.
C10_ShortResponseBlocked ==
    /\ Len(response) < 10 => ~ENABLED SaveClick
    /\ lastSave.clicked => Len(lastSave.response) >= 10

\* C11: when the user submits a valid response in the entry view, a
\* JournalEntry holding the shown prompt, the response and the creation
\* timestamp is appended to the entry store in that same step: the stored
\* sequence is one entry longer and ends with that entry.
C11_SaveAppendsEntry ==
    [][SaveClick =>
        LET before == loadEntries(storage).val
            after == loadEntries(storage').val
        IN  /\ Len(after) = Len(before) + 1
            /\ SubSeq(after, 1, Len(before)) = before
            /\ after[Len(after)].prompt = promptText
            /\ after[Len(after)].response = response
            /\ after[Len(after)].timestamp = now]_vars

(***************************************************************************)
(* Concurrent calls of saveEntry: two tabs of the same origin share        *)
(* localStorage, and each runs the statements of saveEntry in its own      *)
(* thread, so the read of one may fall between the read and the write of   *)
(* the other.                                                              *)
(***************************************************************************)
\* const entries = loadEntries();
SaveEntryRead(st) == loadEntries(st).val

\* Faulty variant: the write reads the key again and appends to what it holds.
SaveEntryWriteFresh(st, entries, entry) == saveEntry(st, entry)

\* entries.push(entry); localStorage.setItem(KEY, JSON.stringify(entries));
SaveEntryWrite(st, entries, entry) ==
    [st EXCEPT ![KEY] = Stored(JSONstringify(Append(entries, entry)))]

InitCallers ==
    /\ \E v \in InitialValues :
          /\ storage = [k \in Keys |-> IF k = KEY THEN v.raw ELSE Missing]
          /\ initArr = v.arr
    /\ now = Now0
    /\ ret = Returned("none", <<>>)
    /\ written = <<>>
    /\ callers = [c \in Callers |-> [pc |-> "idle", entry |-> NoEntry,
                                     entries |-> <<>>]]
    /\ order = <<>>
    /\ ReportUnmounted
    /\ EntryUnmounted

\* A tab calls saveEntry(entry) and runs its first statement.
CallerReads(c) ==
    /\ callers[c].pc = "idle"
    /\ \E entry \in EntriesAt(now) :
          callers' = [callers EXCEPT ![c] = [pc |-> "read", entry |-> entry,
                                             entries |-> SaveEntryRead(storage)]]
    /\ order' = Append(order, [op |-> "read", c |-> c])
    /\ UNCHANGED storeVars
    /\ UNCHANGED <<reportVars, entryVars>>

\* The tab runs the rest of saveEntry and returns.
CallerWrites(c) ==
    /\ callers[c].pc = "read"
    /\ storage' = SaveEntryWrite(storage, callers[c].entries, callers[c].entry)
    /\ written' = Append(written, callers[c].entry)
    /\ callers' = [callers EXCEPT ![c].pc = "done"]
    /\ order' = Append(order, [op |-> "write", c |-> c])
    /\ UNCHANGED <<now, ret, initArr>>
    /\ UNCHANGED <<reportVars, entryVars>>

NextCallers == \E c \in Callers : CallerReads(c) \/ CallerWrites(c)

SpecCallers == InitCallers /\ [][NextCallers]_vars

BothReturned == \A c \in Callers : callers[c].pc = "done"

\* Both calls read the stored sequence before either wrote it.
BothReadFirst ==
    /\ Len(order) >= 2
    /\ order[1].op = "read"
    /\ order[2].op = "read"

\* C12: saveEntry reads and then writes with no compare-and-swap: when two
\* calls both read the stored sequence before either writes, the sequence
\* stored at the end is the one read followed by the entry of the call
\* that wrote last, and the other entry is lost; when one call returns
\* before the other reads, both entries are stored, in the order of the
\* calls, and every call on its own stores what saveEntry stores.
C12_LostUpdate ==
    /\ BothReturned =>
          LET final == loadEntries(storage).val
              last == callers[order[4].c].entry
          IN  IF BothReadFirst
              THEN /\ final = Append(initArr, last)
                   /\ Len(final) = Len(initArr) + 1
              ELSE /\ final = initArr \o <<callers[order[2].c].entry, last>>
                   /\ Len(final) = Len(initArr) + 2
    /\ \A c \in Callers :
          callers[c].pc = "read" /\ order[Len(order)] = [op |-> "read", c |-> c]
          => SaveEntryWrite(storage, callers[c].entries, callers[c].entry)
                = saveEntry(storage, callers[c].entry)

\* Both calls read the same stored array of two entries, wrote different
\* entries, and only the second writer's entry is stored after them.
C12_Witness ==
    /\ BothReturned
    /\ BothReadFirst
    /\ Len(initArr) = 2
    /\ callers[1].entry # callers[2].entry
    /\ Len(loadEntries(storage).val) = 3
    /\ loadEntries(storage).val[3] = callers[order[4].c].entry
    /\ \E c \in Callers :
          \A i \in 1..3 : loadEntries(storage).val[i] # callers[c].entry

\* Two calls that did not overlap left both entries in the store.
C12_WitnessSequential ==
    /\ BothReturned
    /\ ~BothReadFirst
    /\ Len(loadEntries(storage).val) = Len(initArr) + 2

(***************************************************************************)
(* Properties of the audio capture of the entry page.                      *)
(***************************************************************************)
\* C13: the capture goes Idle -> Recording -> Transcribing -> Idle under
\* every interleaving of the user's starts and stops, the getUserMedia
\* resolutions, the recorder stop events and the transcription responses:
\* isRecording and isTranscribing are never both true, and isTranscribing
\* becomes true only in the step that handles a recorder's stop event.
C13_CaptureLifecycle ==
    /\ [](~(isRecording /\ isTranscribing))
    /\ [][~isTranscribing /\ isTranscribing' =>
            \E id \in 1..Len(recorders) :
                /\ recorders[id].stopQueued
                /\ ~recorders'[id].stopQueued]_vars

\* C14: once the entry view is unmounted any active capture is stopped: in
\* every state after the unmount, also when a getUserMedia request pending
\* at the unmount resolves later, no microphone stream has live tracks and
\* no recorder is recording.
C14_UnmountStopsCapture ==
    ePhase = "unmounted" =>
        /\ \A s \in 1..Len(streams) : streams[s] # "live"
        /\ \A id \in 1..Len(recorders) : recorders[id].state # "recording"

\* C15: after the entry view is unmounted an in-flight transcription is
\* discarded: no step taken after the unmount issues a transcription
\* request, the recorder stop caused by the unmount cleanup included, and
\* none changes the response text or the error message.
C15_UnmountDiscardsTranscription ==
    [][ePhase = "unmounted" =>
          /\ transcribing' <= transcribing
          /\ response' = response
          /\ error' = error]_vars

(***************************************************************************)
(* The two views under the assumption that every remote call issued        *)
(* completes.  App renders one page at a time and the entry page calls no  *)
(* onNavigate: the report page's steps happen in the runs where the entry  *)
(* page was never rendered.                                                *)
(***************************************************************************)
InitViews == InitEntry \/ InitReport

ReportShown == ePhase = "none" /\ NextReport

NextViews == NextEntry \/ ReportShown

SpecViewsFair ==
    /\ InitViews
    /\ [][NextViews]_vars
    /\ WF_vars(PromptResponse)
    /\ WF_vars(TranscriptionResponse)
    /\ WF_vars(InsightsResponse)

\* C16: when a remote call issued by a view completes, by success or by
\* failure, the view's busy flag of that call is false after the step:
\* isLoadingPrompt for the prompt fetch, isTranscribing for the
\* transcription call, isLoading for the insight call; and when every
\* issued request completes, a flag that is set on a view is false later on
\* (or the view has gone from the screen, and its state with it).
C16_BusyFlagsCleared ==
    /\ [][ePhase = "mounted" /\ promptPending /\ ~promptPending'
            => ~isLoadingPrompt']_vars
    /\ [][ePhase = "mounted" /\ transcribing' < transcribing
            => ~isTranscribing']_vars
    /\ [][rPhase = "mounted" /\ pendingInsight /\ ~pendingInsight'
            => ~isLoading']_vars
    /\ (ePhase = "mounted" /\ isLoadingPrompt)
          ~> (~isLoadingPrompt \/ ePhase # "mounted")
    /\ (ePhase = "mounted" /\ isTranscribing)
          ~> (~isTranscribing \/ ePhase # "mounted")
    /\ (rPhase = "mounted" /\ isLoading)
          ~> (~isLoading \/ rPhase # "mounted")

\* A transcription call has failed on the mounted entry page and
\* isTranscribing is false again.
C16_Witness ==
    /\ ePhase = "mounted"
    /\ error = SttFailedMsg
    /\ transcribing = 0
    /\ ~isTranscribing
    /\ ~isLoadingPrompt

\* A getUserMedia request settles without a recorder starting to record.
CaptureFails ==
    /\ gumPending' = gumPending - 1
    /\ ~(/\ Len(recorders') > Len(recorders)
         /\ recorders'[Len(recorders')].state = "recording")

\* C17: when microphone access is denied or unavailable, or the recorder
\* cannot be set up, the recording flow is aborted with an inline message:
\* after the failing step the error message is set, isRecording is false,
\* streamRef holds no stream, a stream obtained in the step is stopped and
\* no transcription request was issued; without getUserMedia a start only
\* sets the message and nothing is ever captured.
C17_CaptureFailureAborts ==
    /\ [][CaptureFails =>
            /\ streamRef' = 0
            /\ Len(streams') > Len(streams) => streams'[Len(streams')] = "stopped"
            /\ transcribing' = transcribing
            /\ ePhase = "mounted" => error' = MicrophoneMsg /\ ~isRecording']_vars
    /\ [][~hasGetUserMedia /\ (HoldDown \/ ToggleRecording) =>
            /\ error' = UnsupportedMsg
            /\ ~isRecording'
            /\ streamRef' = 0
            /\ gumCalls' = 0
            /\ transcribing' = 0]_vars

\* The stream was granted, the recorder could not be set up, and the view
\* shows the message with the stream stopped and no recorder recording.
C17_Witness ==
    /\ ePhase = "mounted"
    /\ error = MicrophoneMsg
    /\ ~isRecording
    /\ streamRef = 0
    /\ streams = <<"stopped">>
    /\ recorders = <<>>
    /\ gumPending = 0
    /\ transcribing = 0

\* The stop event of recorder id is handled and the blob assembled from
\* chunksRef is smaller than 1500 bytes.
StopsWithSmallBlob(id) ==
    /\ recorders[id].stopQueued
    /\ ~recorders'[id].stopQueued
    /\ chunksRef' < 1500

Inked(str) == {i \in 1..Len(str) : ~IsSpace(str[i])}

Core(str) ==
    IF Inked(str) = {} THEN <<>>
    ELSE LET first == CHOOSE i \in Inked(str) : \A j \in Inked(str) : i <= j
             last == CHOOSE i \in Inked(str) : \A j \in Inked(str) : j <= i
         IN  SubSeq(str, first, last)

\* The response the claim gives for a transcribed text that is not blank.
WithTranscription(current, text) ==
    IF Core(current) = <<>> THEN Core(text)
    ELSE Core(current) \o <<"\n", "\n">> \o Core(text)

\* C19: a successful transcription never destroys existing response text:
\* a blank transcribed text leaves the response unchanged and sets an error
\* message; any other text makes a blank response the trimmed
\* transcription, and a response that is not blank its trimmed self, a
\* blank line and the trimmed transcription, the response being the one on
\* the page when the result is applied.  Every completion step of a
\* mounted view is of one of these kinds or a failure, and each text the
\* service may return has its step.
C19_TranscriptionKeepsText ==
    /\ [][ePhase = "mounted" /\ transcribing' < transcribing =>
            \/ /\ response' = response
               /\ error' \in {NoSpeechMsg, SttFailedMsg}
            \/ /\ error' = error
               /\ IsPrefix(Core(response), response')
               /\ \E text \in TranscribedTexts :
                     /\ Core(text) # <<>>
                     /\ response' = WithTranscription(response, text)]_vars
    /\ [](ePhase = "mounted" /\ transcribing > 0 =>
            \A text \in TranscribedTexts :
                IF Core(text) = <<>>
                THEN ENABLED (/\ TranscriptionResponse
                              /\ response' = response
                              /\ error' = NoSpeechMsg)
                ELSE ENABLED (/\ TranscriptionResponse
                              /\ response' = WithTranscription(response, text)
                              /\ error' = error))

\* The user typed " a " and the transcription " t " was appended to it;
\* nothing is being transcribed any more.
C19_Witness ==
    /\ ePhase = "mounted"
    /\ response = <<"a", "\n", "\n", "t">>
    /\ transcribing = 0
    /\ ~isTranscribing
    /\ error = ""

\* C20: releasing the hold-to-record button ends the recording it started,
\* for every interleaving of the press, the release and the resolution of
\* getUserMedia: when a release was the last record gesture handled, no
\* getUserMedia request is pending and no recorder stop event is waiting,
\* no recorder is recording and isRecording is false.
C20_ReleaseEndsRecording ==
    /\ released
    /\ ePhase = "mounted"
    /\ gumPending = 0
    /\ \A id \in 1..Len(recorders) : ~recorders[id].stopQueued
    => /\ \A id \in 1..Len(recorders) : recorders[id].state # "recording"
       /\ ~isRecording

\* C21: at most one microphone stream and one recorder are active at any
\* time, under every interleaving of start actions, two starts issued
\* before the first getUserMedia resolves included: each stream returned by
\* getUserMedia is the one held in streamRef or has all its tracks stopped,
\* and each recorder that was started is the one held in mediaRecorderRef
\* or is inactive.
C21_SingleCapture ==
    /\ \A s \in 1..Len(streams) : streams[s] = "live" => s = streamRef
    /\ \A id \in 1..Len(recorders) :
          recorders[id].state = "recording" => id = mediaRecorderRef
    /\ Cardinality({s \in 1..Len(streams) : streams[s] = "live"}) <= 1
    /\ Cardinality({id \in 1..Len(recorders) :
                       recorders[id].state = "recording"}) <= 1

====
